---- MODULE Spec2Model ----
(***************************************************************************)
(* amz-ssh: bastion discovery by tag, just-in-time key provisioning,       *)
(* SSH-over-SSH chain construction, the interactive session and the local  *)
(* tunnel forwarder, as one process with its goroutines.                   *)
(*                                                                         *)
(* Sources: src/main.go (first revision, lines 1-226),                     *)
(*          src/pkg/sshutils/ec2endpoint.go,                               *)
(*          src/unnamed/part_002 lines 244-381 (package sshutils: Tunnel,  *)
(*          forward, Connect).                                             *)
(***************************************************************************)
EXTENDS Integers, Sequences, FiniteSets, TLC

(***************************************************************************)
(* Bounds of the model.                                                    *)
(***************************************************************************)
MaxSpot == 2
MaxRes == 2
MaxInst == 2
MaxDests == 2
MaxConns == 2
MaxStatus == 2
MaxBytes == 2

(***************************************************************************)
(* Values.                                                                 *)
(***************************************************************************)
\* A string is a sequence of tokens; "" is the empty sequence.  Separators
\* ("@", ":") and numbers ("22") are tokens of their own, so that formatting
\* and splitting act on the text and not on a parsed record.
NoId == <<>>
NoAddr == <<>>

\* instance ids held by fulfilled spot requests / by running instances; the
\* two sets overlap in "i-bbb" (a spot instance that also carries the tag)
SpotIds == {<<"i-aaa">>, <<"i-bbb">>}
RunningIds == {<<"i-bbb">>, <<"i-ccc">>}
\* values of the --instance-id flag, and of the destination arguments
FlagIds == {<<"i-aaa">>}
DestArgs == {<<"i-aaa">>, <<"admin", "@", "i-eee", ":", "2222">>}

\* line 132: what NewEndpoint makes of the --tunnel flag (no host when the
\* flag is not given), and the values of the --local-port flag (line 66: it
\* has no default, so 0 when not given)
NoTunnel == [Host |-> "", Port |-> 0]
TunnelTargets ==
    {NoTunnel, [Host |-> "", Port |-> 5432],
     [Host |-> "db", Port |-> 5432], [Host |-> "cache", Port |-> 6379]}
LocalPortFlags == {0, 8080}

SeqsUpTo(S, n) == UNION {[1..k -> S] : k \in 0..n}

\* DescribeSpotInstanceRequests: an API error, or the matching requests
SpotResponses ==
    {[err |-> TRUE, SpotInstanceRequests |-> <<>>]}
    \cup {[err |-> FALSE, SpotInstanceRequests |-> s] : s \in SeqsUpTo(SpotIds, MaxSpot)}

\* DescribeInstances by tag: an API error, or reservation groups, each a list
\* of instances (the SDK type allows a group with no instance; getEC2Instance
\* guards against it)
InstanceResponses ==
    {[err |-> TRUE, Reservations |-> <<>>]}
    \cup {[err |-> FALSE, Reservations |-> r] :
            r \in SeqsUpTo(SeqsUpTo(RunningIds, MaxInst), MaxRes)}

NoResponse == [err |-> FALSE, none |-> TRUE]

\* errors: kind, the address the message names, the remote exit status
Err(kind, addr, status) == [kind |-> kind, addr |-> addr, status |-> status]
NoErr == Err("nil", NoAddr, 0)

\* strconv.Itoa / strconv.Atoi on the numerals the model uses; Atoi gives 0
\* (its error is dropped at ec2endpoint.go:49) for anything else
Itoa(n) == IF n = 22 THEN "22" ELSE IF n = 2222 THEN "2222" ELSE "0"
Atoi(s) ==
    IF s = <<"22">> THEN 22 ELSE IF s = <<"2222">> THEN 2222 ELSE 0

\* strings.Split(s, sep)
RECURSIVE Split(_, _)
Split(s, sep) ==
    IF \A i \in 1..Len(s) : s[i] # sep
    THEN <<s>>
    ELSE LET i == CHOOSE j \in 1..Len(s) :
                    s[j] = sep /\ \A k \in 1..(j - 1) : s[k] # sep
         IN <<SubSeq(s, 1, i - 1)>> \o Split(SubSeq(s, i + 1, Len(s)), sep)

\* rand.Intn(n): a value of 0..n-1; it panics when n = 0
Intn(n) == 0 .. (n - 1)
Pick(n) == IF n > 0 THEN Intn(n) ELSE {0}

VARIABLES
    pc,          \* position of the main goroutine
    exited,      \* the process has terminated
    exitCode,    \* its exit status
    exitCause,   \* which statement terminated it
    farewell,    \* "Goodbye!" was printed
    siro, dio,   \* locals of resolveBastionInstanceID: the two query results
    resolved,    \* what resolveBastionInstanceID returned; run keeps its err
    instanceID,  \* run's instanceID
    tunnelFlag,  \* run's tunnel target: "unread", "none" or "host"
    destArgs,    \* the destination arguments
    localPort,   \* the port Tunnel was called with (0: not called)
    tunnel,      \* the target Tunnel was called with (NoTunnel: not called)
    localPortFlag, \* c.Int("local-port") as line 133 read it (0: not given)
    runErr,      \* the error run returned to main
    returned,    \* run has returned to main
    chain,       \* the endpoints constructed so far, bastion first
    constructed, \* number of NewEC2Endpoint calls that were made
    hop,         \* Connect: index of the endpoint the loop is at
    client,      \* Connect: 0 for nil, else the hop whose handshake made it
    sshConfig,   \* Connect: the auth config of the current hop
    serviceAddr, \* Connect: the resolved address of the current hop
    dialLog,     \* every dial, channel-open and handshake that was attempted
    sessLog,     \* Connect: the calls made for the session, in their order
    provLog,     \* every send-public-key call and every address returned
    stringCalls, \* number of calls of EC2Endpoint.String
    lastString,  \* the latest call of String: the answer to its
                 \* SendSSHPublicKey and what it gave back
    sess,        \* Connect: the session, "none", "open" or "closed"
    termRaw,     \* standard input is in raw mode
    rawEntered,  \* term.MakeRaw succeeded (term.Restore is deferred)
    failure,     \* the failing step of the main goroutine, if any
    listener,    \* Tunnel: the listener, "none", "open" or "closed"
    nconns,      \* Tunnel: number of connections accepted so far
    fpc,         \* forward: position of each connection's goroutine
    fconfig,     \* forward: sshConfig of each connection
    fclient,     \* forward: serverConn of each connection
    localConn,   \* forward: the accepted local connection
    remoteConn,  \* forward: the channel to the remote target
    copyTo,      \* forward: the two copyConn goroutines of each connection,
                 \* named by the side they write to
    flog,        \* forward: the errors the setup of each connection logged
    fdials,      \* forward: number of ssh.Dial calls each connection made
    fclientId,   \* forward: which ssh.Dial call made serverConn (0: nil)
    remoteVia,   \* forward: the client remoteConn was opened on (0: nil)
    stream,      \* copyConn: bytes read and the bytes written
    nbytes       \* bytes read by all io.Copy calls so far

procVars == <<pc, exited, exitCode, exitCause, farewell>>
resolveVars == <<siro, dio, resolved>>
runVars == <<instanceID, tunnelFlag, destArgs, localPort, tunnel, localPortFlag,
             runErr, returned,
             chain, constructed>>
connectVars == <<hop, client, sshConfig, serviceAddr, dialLog, sessLog, sess>>
provVars == <<provLog, stringCalls, lastString>>
termVars == <<termRaw, rawEntered>>
copyVars == <<stream, nbytes>>
tunnelVars == <<listener, nconns, fpc, fconfig, fclient, localConn, remoteConn,
               copyTo, flog, fdials, fclientId, remoteVia, copyVars>>
vars == <<procVars, resolveVars, runVars, connectVars, provVars, termVars, failure,
          tunnelVars>>

Conns == 1..MaxConns

\* the two ends of a forwarded connection, and the state of one io.Copy: the
\* number of bytes read from its source and what it wrote to its destination
\* (the k-th byte of a source stream is k)
Sides == {"local", "remote"}
NoStream == [read |-> 0, out |-> <<>>]

Running == ~exited

\* os.Exit(code), log.Fatal (code 1) or an unrecovered panic (code 2)
ExitWith(code, cause) ==
    /\ exited' = TRUE
    /\ exitCode' = code
    /\ exitCause' = cause
    /\ pc' = "exited"

Alive == UNCHANGED <<exited, exitCode, exitCause>>

NoFailure == [kind |-> "none", hop |-> 0, addr |-> NoAddr]
Failure(kind, h, addr) == [kind |-> kind, hop |-> h, addr |-> addr]

(***************************************************************************)
(* Instance resolver (src/main.go:190-213).                                *)
(***************************************************************************)
NoResolution == [id |-> NoId, err |-> NoErr, panic |-> FALSE, queries |-> <<>>]

\* a resolver that looks at the running instances first
resolveBastionInstanceID_RunningFirst(s, d, r1, r2, r3) ==
    IF ~d.err /\ Len(d.Reservations) > 0 /\ Len(d.Reservations[r2 + 1]) > 0
    THEN [id |-> d.Reservations[r2 + 1][r3 + 1], err |-> NoErr, panic |-> FALSE,
          queries |-> <<"instances">>]
    ELSE IF ~s.err /\ Len(s.SpotInstanceRequests) > 0
    THEN [id |-> s.SpotInstanceRequests[r1 + 1], err |-> NoErr, panic |-> FALSE,
          queries |-> <<"instances", "spot">>]
    ELSE [id |-> NoId, err |-> Err("notfound", NoAddr, 0), panic |-> FALSE,
          queries |-> <<"instances", "spot">>]

\* a resolver that turns to the running instances when the spot query fails
afterSpot_FallsBack(s) ==
    IF Len(s.SpotInstanceRequests) > 0 THEN "pick" ELSE "instances"
\* lines 192-199: what follows the spot-request query
afterSpot(s) ==
    IF s.err THEN "return"
    ELSE IF Len(s.SpotInstanceRequests) > 0 THEN "pick"
    ELSE "instances"

resolveBastionInstanceID(s, d, r1, r2, r3) ==
    IF afterSpot(s) = "return"
    THEN [id |-> NoId, err |-> Err("api", NoAddr, 0), panic |-> FALSE,
          queries |-> <<"spot">>]
    ELSE IF afterSpot(s) = "pick"
    THEN [id |-> s.SpotInstanceRequests[r1 + 1], err |-> NoErr, panic |-> FALSE,
          queries |-> <<"spot">>]
    ELSE IF d.err
    THEN [id |-> NoId, err |-> Err("api", NoAddr, 0), panic |-> FALSE,
          queries |-> <<"spot", "instances">>]
    ELSE IF Len(d.Reservations) > 0
    THEN LET res == d.Reservations[r2 + 1] IN
         IF Len(res) = 0
         THEN [id |-> NoId, err |-> NoErr, panic |-> TRUE,
               queries |-> <<"spot", "instances">>]
         ELSE [id |-> res[r3 + 1], err |-> NoErr, panic |-> FALSE,
               queries |-> <<"spot", "instances">>]
    ELSE [id |-> NoId, err |-> Err("notfound", NoAddr, 0), panic |-> FALSE,
          queries |-> <<"spot", "instances">>]

(***************************************************************************)
(* Endpoints (src/pkg/sshutils/ec2endpoint.go).                            *)
(***************************************************************************)
\* GenerateKeys: the n-th call gives the n-th key pair
GenerateKeys(n) == [PrivateKey |-> <<"private-key", n>>,
                    PublicKey |-> <<"public-key", n>>]

\* getEC2Instance, lines 118-132: the instance DescribeInstances gives for id
getEC2Instance(id) ==
    [InstanceId |-> id,
     AvailabilityZone |-> <<"az-of">> \o id,
     PrivateIpAddress |-> <<"private-ip-of">> \o id,
     PublicIpAddress |-> <<"public-ip-of">> \o id]

EndpointOutcomes == {"ok", "keyerr", "apierr", "notfound"}

\* a NewEC2Endpoint that drops the port of the string and keeps port 22
NewEC2Endpoint_DefaultPort(str, n, outcome) ==
    LET atParts == Split(str, "@")
        user == IF Len(atParts) > 1 THEN atParts[1] ELSE <<"ec2-user">>
        id1 == IF Len(atParts) > 1 THEN atParts[2] ELSE str
        colonParts == Split(id1, ":")
        id2 == IF Len(colonParts) > 1 THEN colonParts[1] ELSE id1
        keys == GenerateKeys(n)
    IN [ep |-> [InstanceID |-> id2,
                Port |-> 22,
                User |-> user,
                PrivateKey |-> keys.PrivateKey,
                PublicKey |-> keys.PublicKey,
                UsePrivate |-> FALSE,
                Instance |-> getEC2Instance(id2)],
        err |-> IF outcome = "ok" THEN NoErr ELSE Err(outcome, NoAddr, 0)]

\* NewEC2Endpoint, lines 32-63
NewEC2Endpoint(str, n, outcome) ==
    LET atParts == Split(str, "@")
        user == IF Len(atParts) > 1 THEN atParts[1] ELSE <<"ec2-user">>
        id1 == IF Len(atParts) > 1 THEN atParts[2] ELSE str
        colonParts == Split(id1, ":")
        id2 == IF Len(colonParts) > 1 THEN colonParts[1] ELSE id1
        port == IF Len(colonParts) > 1 THEN Atoi(colonParts[2]) ELSE 22
        keys == GenerateKeys(n)
    IN [ep |-> [InstanceID |-> id2,
                Port |-> port,
                User |-> user,
                PrivateKey |-> keys.PrivateKey,
                PublicKey |-> keys.PublicKey,
                UsePrivate |-> FALSE,
                Instance |-> getEC2Instance(id2)],
        err |-> IF outcome = "ok" THEN NoErr ELSE Err(outcome, NoAddr, 0)]

\* sendPublicKey, lines 92-116, for each answer of SendSSHPublicKey
SendOutcomes == {"ok", "throttling", "error", "nosuccess"}

\* a sendPublicKey without the throttling case of lines 102-106
sendPublicKey_ThrottlingFails(outcome) ==
    IF outcome = "ok" THEN NoErr ELSE Err("sendkey", NoAddr, 0)

sendPublicKey(outcome) ==
    IF outcome = "throttling" THEN NoErr
    ELSE IF outcome = "error" THEN Err("sendkey", NoAddr, 0)
    ELSE IF outcome = "nosuccess" THEN Err("sendkey-nosuccess", NoAddr, 0)
    ELSE NoErr

\* the entries of provLog: a SendSSHPublicKey call, and an address returned
\* by String
SendEvent(e) ==
    [kind |-> "send", ep |-> e.InstanceID, user |-> e.User, key |-> e.PublicKey,
     addr |-> NoAddr]
AddrEvent(e, a) ==
    [kind |-> "addr", ep |-> e.InstanceID, user |-> e.User, key |-> e.PublicKey,
     addr |-> a]

\* a String that gives the public address whatever UsePrivate says
EndpointAddr_AlwaysPublic(e) ==
    e.Instance.PublicIpAddress \o <<":", Itoa(e.Port)>>

\* the address lines 70-74 format for e
EndpointAddr(e) ==
    (IF e.UsePrivate THEN e.Instance.PrivateIpAddress ELSE e.Instance.PublicIpAddress)
    \o <<":", Itoa(e.Port)>>

\* a String that keeps the address of its first call
EC2EndpointString_Cached(e, outcome, log) ==
    IF \E k \in 1..Len(log) : log[k].kind = "addr" /\ log[k].key = e.PublicKey
    THEN [fatal |-> FALSE, addr |-> EndpointAddr(e),
          events |-> <<AddrEvent(e, EndpointAddr(e))>>]
    ELSE IF outcome \in {"error", "nosuccess"}
    THEN [fatal |-> TRUE, addr |-> NoAddr, events |-> <<SendEvent(e)>>]
    ELSE [fatal |-> FALSE, addr |-> EndpointAddr(e),
          events |-> <<SendEvent(e), AddrEvent(e, EndpointAddr(e))>>]

\* EC2Endpoint.String, lines 65-75: the key is sent, then the address is
\* formatted; log.Fatal ends the process when sendPublicKey fails.  log is
\* the provisioning history so far, events is what this call adds to it.
EC2EndpointString(e, outcome, log) ==
    LET err == sendPublicKey(outcome)
        a == EndpointAddr(e)
    IN IF err # NoErr
       THEN [fatal |-> TRUE, addr |-> NoAddr, events |-> <<SendEvent(e)>>]
       ELSE [fatal |-> FALSE, addr |-> a,
             events |-> <<SendEvent(e), AddrEvent(e, a)>>]

NoCall == [key |-> <<>>, outcome |-> "none", fatal |-> FALSE, addr |-> NoAddr]
StringCall(e, outcome, r) ==
    [key |-> e.PublicKey, outcome |-> outcome, fatal |-> r.fatal, addr |-> r.addr]

\* the nil *ssh.ClientConfig
NilConfig == [User |-> <<>>, Key |-> <<>>]

\* an auth config made from the private key of the first endpoint constructed
GetSSHConfig_FirstKey(e) == [User |-> e.User, Key |-> GenerateKeys(1).PrivateKey]
\* EC2Endpoint.GetSSHConfig, lines 77-90
GetSSHConfig(e) == [User |-> e.User, Key |-> e.PrivateKey]

Init ==
    /\ pc = "start"
    /\ exited = FALSE
    /\ exitCode = 0
    /\ exitCause = "none"
    /\ farewell = FALSE
    /\ siro = NoResponse
    /\ dio = NoResponse
    /\ resolved = NoResolution
    /\ instanceID = NoId
    /\ tunnelFlag = "unread"
    /\ destArgs = <<>>
    /\ localPort = 0
    /\ tunnel = NoTunnel
    /\ localPortFlag = 0
    /\ runErr = NoErr
    /\ returned = FALSE
    /\ chain = <<>>
    /\ constructed = 0
    /\ hop = 0
    /\ client = 0
    /\ sshConfig = NilConfig
    /\ serviceAddr = NoAddr
    /\ dialLog = <<>>
    /\ sessLog = <<>>
    /\ provLog = <<>>
    /\ stringCalls = 0
    /\ lastString = NoCall
    /\ sess = "none"
    /\ termRaw = FALSE
    /\ rawEntered = FALSE
    /\ failure = NoFailure
    /\ listener = "none"
    /\ nconns = 0
    /\ fpc = [c \in Conns |-> "idle"]
    /\ fconfig = [c \in Conns |-> NilConfig]
    /\ fclient = [c \in Conns |-> "none"]
    /\ localConn = [c \in Conns |-> "none"]
    /\ remoteConn = [c \in Conns |-> "none"]
    /\ copyTo = [c \in Conns |-> [local |-> "none", remote |-> "none"]]
    /\ flog = [c \in Conns |-> {}]
    /\ fdials = [c \in Conns |-> 0]
    /\ fclientId = [c \in Conns |-> 0]
    /\ remoteVia = [c \in Conns |-> 0]
    /\ stream = [c \in Conns |-> [w \in Sides |-> NoStream]]
    /\ nbytes = 0

(***************************************************************************)
(* run (src/main.go:97-154).                                               *)
(***************************************************************************)
\* a return of run with err; the deferred calls of Connect are its own
RunReturn(err) ==
    /\ runErr' = err
    /\ returned' = TRUE
    /\ pc' = "main_ret"
    /\ Alive

\* lines 97-118: the tag is split and the instance-id flag is read
RunStart ==
    /\ Running /\ pc = "start"
    /\ \E tagValid \in BOOLEAN, flagId \in FlagIds \cup {NoId} :
        IF ~tagValid
        THEN /\ RunReturn(Err("tag", NoAddr, 0))
             /\ failure' = Failure("tag", 0, NoAddr)
             /\ UNCHANGED instanceID
        ELSE /\ instanceID' = flagId
             /\ pc' = IF flagId = NoId THEN "resolve" ELSE "bastion_ep"
             /\ UNCHANGED <<exited, exitCode, exitCause, runErr, returned, failure>>
    /\ UNCHANGED <<farewell, tunnelVars, resolveVars, tunnelFlag, destArgs, localPort, tunnel,
                   localPortFlag, chain,
                   constructed, connectVars, provVars, termVars>>

\* line 120: the call of resolveBastionInstanceID, up to its return
RunResolve ==
    /\ Running /\ pc = "resolve"
    /\ \E s \in SpotResponses, d \in InstanceResponses :
       \E r1 \in Pick(Len(s.SpotInstanceRequests)), r2 \in Pick(Len(d.Reservations)) :
       \E r3 \in Pick(IF Len(d.Reservations) > 0 THEN Len(d.Reservations[r2 + 1]) ELSE 0) :
         LET out == resolveBastionInstanceID(s, d, r1, r2, r3) IN
         /\ siro' = s
         /\ dio' = d
         /\ resolved' = out
         /\ IF out.panic
            THEN ExitWith(2, "panic")
            ELSE /\ pc' = "resolve_ret"
                 /\ Alive
    /\ UNCHANGED <<farewell, tunnelVars, runVars, connectVars, provVars, termVars, failure>>

\* a run that goes on after a failed resolution
RunAfterResolve_IgnoresError ==
    /\ Running /\ pc = "resolve_ret"
    /\ siro' = NoResponse
    /\ dio' = NoResponse
    /\ resolved' = [NoResolution EXCEPT !.err = resolved.err]
    /\ instanceID' = resolved.id
    /\ pc' = "bastion_ep"
    /\ UNCHANGED <<exited, exitCode, exitCause, runErr, returned, failure>>
    /\ UNCHANGED <<farewell, tunnelVars, tunnelFlag, destArgs, localPort, tunnel,
                   localPortFlag,
                   chain, constructed, connectVars, provVars, termVars>>

\* lines 120-124: the result is taken into run's instanceID and err; the
\* resolver's locals are gone
RunAfterResolve ==
    /\ Running /\ pc = "resolve_ret"
    /\ siro' = NoResponse
    /\ dio' = NoResponse
    /\ resolved' = [NoResolution EXCEPT !.err = resolved.err]
    /\ IF resolved.err # NoErr
       THEN /\ RunReturn(resolved.err)
            /\ failure' = Failure("resolution", 0, NoAddr)
            /\ UNCHANGED instanceID
       ELSE /\ instanceID' = resolved.id
            /\ pc' = "bastion_ep"
            /\ UNCHANGED <<exited, exitCode, exitCause, runErr, returned, failure>>
    /\ UNCHANGED <<farewell, tunnelVars, tunnelFlag, destArgs, localPort, tunnel,
                   localPortFlag, chain,
                   constructed, connectVars, provVars, termVars>>

\* fmt.Sprintf("%s@%s:%d", user, instanceID, port), line 126
bastionAddr(user, id, port) == user \o <<"@">> \o id \o <<":", Itoa(port)>>

\* values of the --user and --port flags (their defaults, lines 54 and 64)
UserFlags == {<<"ec2-user">>}
PortFlags == {22}

\* lines 126-130: the bastion endpoint is constructed
RunBastionEndpoint ==
    /\ Running /\ pc = "bastion_ep"
    /\ constructed' = constructed + 1
    /\ \E user \in UserFlags, port \in PortFlags, outcome \in EndpointOutcomes :
        LET r == NewEC2Endpoint(bastionAddr(user, instanceID, port),
                                constructed + 1, outcome) IN
        IF r.err # NoErr
        THEN /\ RunReturn(r.err)
             /\ failure' = Failure("endpoint", 0, NoAddr)
             /\ UNCHANGED chain
        ELSE /\ chain' = <<r.ep>>
             /\ pc' = "tunnel_check"
             /\ UNCHANGED <<exited, exitCode, exitCause, runErr, returned, failure>>
    /\ UNCHANGED <<farewell, tunnelVars, resolveVars, instanceID, tunnelFlag, destArgs, localPort, tunnel,
                   localPortFlag,
                   connectVars, provVars, termVars>>

\* a run that hands the --local-port flag to Tunnel as it is
tunnelLocalPort_Flag(p, t) == p
\* lines 133-136: the local port defaults to the port of the tunnel target
tunnelLocalPort(p, t) == IF p = 0 THEN t.Port ELSE p

\* lines 132-138: the tunnel flag decides between Tunnel and Connect; the
\* destination arguments are read at line 144
RunTunnelCheck ==
    /\ Running /\ pc = "tunnel_check"
    /\ \E t \in TunnelTargets :
        IF t.Host # ""
        THEN /\ tunnelFlag' = "host"
             /\ tunnel' = t
             /\ \E p \in LocalPortFlags :
                  /\ localPortFlag' = p
                  /\ localPort' = tunnelLocalPort(p, t)
             /\ pc' = "t_listen"
             /\ UNCHANGED <<destArgs, hop>>
        ELSE /\ tunnelFlag' = "none"
             /\ \E args \in SeqsUpTo(DestArgs, MaxDests) :
                  /\ destArgs' = args
                  /\ pc' = IF Len(args) = 0 THEN "c_cfg" ELSE "dest_ep"
             /\ hop' = 1
             /\ UNCHANGED <<localPort, tunnel, localPortFlag>>
    /\ UNCHANGED <<exited, exitCode, exitCause, farewell, tunnelVars, resolveVars,
                   instanceID, runErr, returned, chain, constructed, client, sshConfig,
                   serviceAddr, dialLog, sessLog, sess, provVars, termVars, failure>>

\* a run that leaves a destination endpoint as NewEC2Endpoint made it
destEndpoint_Public(ep) == ep
\* line 149: destEndpoint.UsePrivate = true
destEndpoint(ep) == [ep EXCEPT !.UsePrivate = TRUE]

\* lines 144-151: one destination endpoint is constructed and appended
RunDestEndpoint ==
    /\ Running /\ pc = "dest_ep"
    /\ constructed' = constructed + 1
    /\ \E outcome \in EndpointOutcomes :
        LET r == NewEC2Endpoint(destArgs[Len(chain)], constructed + 1, outcome) IN
        IF r.err # NoErr
        THEN /\ RunReturn(r.err)
             /\ failure' = Failure("endpoint", 0, NoAddr)
             /\ UNCHANGED chain
        ELSE /\ chain' = Append(chain, destEndpoint(r.ep))
             /\ pc' = IF Len(chain) = Len(destArgs) THEN "c_cfg" ELSE "dest_ep"
             /\ UNCHANGED <<exited, exitCode, exitCause, runErr, returned, failure>>
    /\ UNCHANGED <<farewell, tunnelVars, resolveVars, instanceID, tunnelFlag, destArgs, localPort, tunnel,
                   localPortFlag,
                   connectVars, provVars, termVars>>

(***************************************************************************)
(* Connect (src/unnamed/part_002:307-381).                                 *)
(***************************************************************************)
\* a return of Connect, and so of run, with err: the deferred sess.Close and
\* term.Restore run
ConnectReturn(err) ==
    /\ RunReturn(err)
    /\ sess' = IF sess = "open" THEN "closed" ELSE sess
    /\ termRaw' = IF rawEntered THEN FALSE ELSE termRaw

\* lines 310-314: the hop's auth config
ConnectGetSSHConfig ==
    /\ Running /\ pc = "c_cfg"
    /\ \E ok \in BOOLEAN :
        IF ok
        THEN /\ sshConfig' = GetSSHConfig(chain[hop])
             /\ pc' = "c_addr"
             /\ UNCHANGED <<exited, exitCode, exitCause, runErr, returned, sess,
                            termRaw, failure>>
        ELSE /\ ConnectReturn(NoErr)
             /\ failure' = Failure("authconfig", hop, NoAddr)
             /\ UNCHANGED sshConfig
    /\ UNCHANGED <<farewell, tunnelVars, resolveVars, instanceID, tunnelFlag, destArgs, localPort, tunnel,
                   localPortFlag,
                   chain, constructed, hop, client, serviceAddr, dialLog, sessLog, provVars,
                   rawEntered>>

\* line 316: the hop's address is resolved
ConnectResolve ==
    /\ Running /\ pc = "c_addr"
    /\ stringCalls' = stringCalls + 1
    /\ \E outcome \in SendOutcomes :
        LET r == EC2EndpointString(chain[hop], outcome, provLog) IN
        /\ provLog' = provLog \o r.events
        /\ lastString' = StringCall(chain[hop], outcome, r)
        /\ IF r.fatal
           THEN /\ ExitWith(1, "fatal")
                /\ failure' = Failure("provisioning", hop, NoAddr)
                /\ UNCHANGED serviceAddr
           ELSE /\ serviceAddr' = r.addr
                /\ pc' = "c_dial"
                /\ UNCHANGED <<exited, exitCode, exitCause, failure>>
    /\ UNCHANGED <<farewell, tunnelVars, resolveVars, runVars, hop, client, sshConfig, dialLog, sessLog,
                   sess, termVars>>

DialEvent(op, via, ok) ==
    [op |-> op, hop |-> hop, via |-> via, addr |-> serviceAddr,
     config |-> sshConfig, ok |-> ok]

\* lines 320-329: the transport of the hop, a TCP connection for a nil client
\* (the dial inside ssh.Dial) and a channel of the previous client otherwise
dialOp_AlwaysDirect(c) == "tcp"

dialOp(c) == IF c = 0 THEN "tcp" ELSE "chan"

ConnectDial ==
    /\ Running /\ pc = "c_dial"
    /\ \E ok \in BOOLEAN :
        /\ dialLog' = Append(dialLog, DialEvent(dialOp(client), client, ok))
        /\ IF ok
           THEN /\ pc' = "c_hs"
                /\ UNCHANGED <<exited, exitCode, exitCause, runErr, returned, sess,
                               termRaw, failure>>
           ELSE \* "failed to dial: %s": the text of a net.OpError names the
                \* address, that of a rejected channel does not
                /\ ConnectReturn(Err("dial",
                                     IF client = 0 THEN serviceAddr ELSE NoAddr, 0))
                /\ failure' = Failure("dial", hop, serviceAddr)
    /\ UNCHANGED <<farewell, tunnelVars, resolveVars, instanceID, tunnelFlag, destArgs, localPort, tunnel,
                   localPortFlag,
                   chain, constructed, hop, client, sshConfig, serviceAddr, provVars,
                   rawEntered, sessLog>>

\* lines 321-334: the SSH handshake of the hop, inside ssh.Dial for the first
\* hop and by ssh.NewClientConn for the others
ConnectHandshake ==
    /\ Running /\ pc = "c_hs"
    /\ \E ok \in BOOLEAN :
        /\ dialLog' = Append(dialLog, DialEvent("handshake", client, ok))
        /\ IF ok
           THEN /\ client' = hop
                /\ IF hop = Len(chain)
                   THEN pc' = "c_session" /\ UNCHANGED hop
                   ELSE pc' = "c_cfg" /\ hop' = hop + 1
                /\ UNCHANGED <<exited, exitCode, exitCause, runErr, returned, sess,
                               termRaw, failure>>
           ELSE /\ ConnectReturn(IF client = 0
                                 THEN Err("dial", NoAddr, 0)
                                 ELSE Err("newclientconn", serviceAddr, 0))
                /\ failure' = Failure("handshake", hop, serviceAddr)
                /\ UNCHANGED <<client, hop>>
    /\ UNCHANGED <<farewell, tunnelVars, resolveVars, instanceID, tunnelFlag, destArgs, localPort, tunnel,
                   localPortFlag,
                   chain, constructed, sshConfig, serviceAddr, provVars, rawEntered,
                   sessLog>>

\* an entry of sessLog: a call made for the session, and the client the
\* session is on
SessStep(step) == [step |-> step, on |-> client]

\* lines 338-342: the session on the last client
ConnectNewSession ==
    /\ Running /\ pc = "c_session"
    /\ sessLog' = Append(sessLog, SessStep("session"))
    /\ \E ok \in BOOLEAN :
        IF ok
        THEN /\ sess' = "open"
             /\ pc' = "c_term"
             /\ UNCHANGED <<exited, exitCode, exitCause, runErr, returned, termRaw,
                            failure>>
        ELSE /\ ConnectReturn(Err("session", NoAddr, 0))
             /\ failure' = Failure("session", hop, NoAddr)
    /\ UNCHANGED <<farewell, tunnelVars, resolveVars, instanceID, tunnelFlag, destArgs, localPort, tunnel,
                   localPortFlag,
                   chain, constructed, hop, client, sshConfig, serviceAddr, dialLog,
                   provVars, rawEntered>>

\* a Connect that asks for a shell right after raw mode, without a PTY
termNext_NoPty(isTerminal) == "c_shell"
\* lines 357-373: the PTY is set up only when standard input is a terminal
termNext(isTerminal) == IF isTerminal THEN "c_size" ELSE "c_shell"

\* lines 355-362: raw mode when standard input is a terminal
ConnectMakeRaw ==
    /\ Running /\ pc = "c_term"
    /\ \E isTerminal \in BOOLEAN, ok \in BOOLEAN :
        /\ sessLog' = sessLog \o (IF isTerminal
                                  THEN <<SessStep("isterminal"), SessStep("raw")>>
                                  ELSE <<SessStep("notterminal")>>)
        /\ IF ~isTerminal
           THEN /\ pc' = termNext(FALSE)
                /\ UNCHANGED <<exited, exitCode, exitCause, runErr, returned, sess,
                               termVars, failure>>
           ELSE IF ok
           THEN /\ termRaw' = TRUE
                /\ rawEntered' = TRUE
                /\ pc' = termNext(TRUE)
                /\ UNCHANGED <<exited, exitCode, exitCause, runErr, returned, sess,
                               failure>>
           ELSE /\ ConnectReturn(NoErr)
                /\ failure' = Failure("rawmode", hop, NoAddr)
                /\ UNCHANGED rawEntered
    /\ UNCHANGED <<farewell, tunnelVars, resolveVars, instanceID, tunnelFlag, destArgs, localPort, tunnel,
                   localPortFlag,
                   chain, constructed, hop, client, sshConfig, serviceAddr, dialLog,
                   provVars>>

\* lines 364-367: the terminal size
ConnectGetSize ==
    /\ Running /\ pc = "c_size"
    /\ sessLog' = Append(sessLog, SessStep("size"))
    /\ \E ok \in BOOLEAN :
        IF ok
        THEN /\ pc' = "c_pty"
             /\ UNCHANGED <<exited, exitCode, exitCause, runErr, returned, sess,
                            termRaw, failure>>
        ELSE /\ ConnectReturn(Err("termsize", NoAddr, 0))
             /\ failure' = Failure("termsize", hop, NoAddr)
    /\ UNCHANGED <<farewell, tunnelVars, resolveVars, instanceID, tunnelFlag, destArgs, localPort, tunnel,
                   localPortFlag,
                   chain, constructed, hop, client, sshConfig, serviceAddr, dialLog,
                   provVars, rawEntered>>

\* lines 369-372: the pseudo-terminal request
ConnectRequestPty ==
    /\ Running /\ pc = "c_pty"
    /\ sessLog' = Append(sessLog, SessStep("pty"))
    /\ \E ok \in BOOLEAN :
        IF ok
        THEN /\ pc' = "c_shell"
             /\ UNCHANGED <<exited, exitCode, exitCause, runErr, returned, sess,
                            termRaw, failure>>
        ELSE /\ ConnectReturn(Err("pty", NoAddr, 0))
             /\ failure' = Failure("pty", hop, NoAddr)
    /\ UNCHANGED <<farewell, tunnelVars, resolveVars, instanceID, tunnelFlag, destArgs, localPort, tunnel,
                   localPortFlag,
                   chain, constructed, hop, client, sshConfig, serviceAddr, dialLog,
                   provVars, rawEntered>>

\* lines 375-378: the shell request; os.Exit(1) when it fails
ConnectShell ==
    /\ Running /\ pc = "c_shell"
    /\ sessLog' = Append(sessLog, SessStep("shell"))
    /\ \E ok \in BOOLEAN :
        IF ok
        THEN /\ pc' = "c_wait"
             /\ UNCHANGED <<exited, exitCode, exitCause, failure>>
        ELSE /\ ExitWith(1, "shell")
             /\ failure' = Failure("shell", hop, NoAddr)
    /\ UNCHANGED <<farewell, tunnelVars, resolveVars, runVars, hop, client, sshConfig,
                   serviceAddr, dialLog, sess, provVars, termVars>>

\* line 380: sess.Wait: nil for exit status 0, an ExitError for another
\* status, an ExitMissingError when the remote sent none
WaitResults ==
    {NoErr, Err("exitmissing", NoAddr, 0)}
    \cup {Err("exit", NoAddr, st) : st \in 1..MaxStatus}

ConnectWait ==
    /\ Running /\ pc = "c_wait"
    /\ sessLog' = Append(sessLog, SessStep("wait"))
    /\ \E err \in WaitResults :
        /\ ConnectReturn(err)
        /\ failure' = IF err = NoErr THEN failure
                      ELSE Failure("remote-" \o err.kind, hop, NoAddr)
    /\ UNCHANGED <<farewell, tunnelVars, resolveVars, instanceID, tunnelFlag, destArgs, localPort, tunnel,
                   localPortFlag,
                   chain, constructed, hop, client, sshConfig, serviceAddr, dialLog,
                   provVars, rawEntered>>

(***************************************************************************)
(* Tunnel and forward (src/unnamed/part_002:258-305).                      *)
(***************************************************************************)
\* lines 261-266: the listener is bound
TunnelListen ==
    /\ Running /\ pc = "t_listen"
    /\ \E ok \in BOOLEAN :
        IF ok
        THEN /\ listener' = "open"
             /\ pc' = "t_accept"
             /\ UNCHANGED <<exited, exitCode, exitCause, runErr, returned, failure>>
        ELSE /\ RunReturn(Err("listen", NoAddr, 0))
             /\ failure' = Failure("listen", 0, NoAddr)
             /\ UNCHANGED listener
    /\ UNCHANGED <<farewell, resolveVars, instanceID, tunnelFlag, destArgs, localPort, tunnel,
                   localPortFlag,
                   chain, constructed, connectVars, provVars, termVars, nconns, fpc,
                   fconfig, fclient, localConn, remoteConn, copyTo, flog, fdials,
                   fclientId, remoteVia, copyVars>>

\* a Tunnel that calls forward without go, and so waits for it to return
afterAccept_Waits == "t_forward"
\* line 273, go forward(...): the loop is back at Accept at once
afterAccept == "t_accept"

\* lines 267-274: one turn of the accept loop; a connection gets its forward
\* goroutine, an error of Accept ends Tunnel (the deferred Close runs)
TunnelAccept ==
    /\ Running /\ pc = "t_accept"
    /\ \E ok \in BOOLEAN :
        IF ok
        THEN /\ nconns < MaxConns
             /\ nconns' = nconns + 1
             /\ fpc' = [fpc EXCEPT ![nconns + 1] = "f_cfg"]
             /\ localConn' = [localConn EXCEPT ![nconns + 1] = "open"]
             /\ pc' = afterAccept
             /\ UNCHANGED <<exited, exitCode, exitCause, runErr, returned, failure,
                            listener>>
        ELSE /\ RunReturn(Err("accept", NoAddr, 0))
             /\ failure' = Failure("accept", 0, NoAddr)
             /\ listener' = "closed"
             /\ UNCHANGED <<nconns, fpc, localConn>>
    /\ UNCHANGED <<farewell, resolveVars, instanceID, tunnelFlag, destArgs, localPort, tunnel,
                   localPortFlag,
                   chain, constructed, connectVars, provVars, termVars, fconfig,
                   fclient, remoteConn, copyTo, flog, fdials, fclientId, remoteVia,
                   copyVars>>

\* what a forward step leaves alone, besides the connection's own fields
ForwardFrame ==
    UNCHANGED <<farewell, resolveVars, runVars, connectVars, termVars, failure,
                listener, nconns>>

\* lines 278-281: the auth config; its error is logged and forward goes on
ForwardGetSSHConfig(c) ==
    /\ Running /\ fpc[c] = "f_cfg"
    /\ \E ok \in BOOLEAN :
        IF ok
        THEN /\ fconfig' = [fconfig EXCEPT ![c] = GetSSHConfig(chain[1])]
             /\ UNCHANGED flog
        ELSE /\ flog' = [flog EXCEPT ![c] = @ \cup {"authconfig"}]
             /\ UNCHANGED fconfig
    /\ fpc' = [fpc EXCEPT ![c] = "f_addr"]
    /\ ForwardFrame
    /\ UNCHANGED <<pc, exited, exitCode, exitCause, provVars, fclient, localConn,
                   remoteConn, copyTo, fdials, fclientId, remoteVia, copyVars>>

\* a call of bastionEndpoint.String() by forward (lines 283 and 288), then to
\* position next
ForwardString(c, next) ==
    /\ stringCalls' = stringCalls + 1
    /\ \E outcome \in SendOutcomes :
        LET r == EC2EndpointString(chain[1], outcome, provLog) IN
        /\ provLog' = provLog \o r.events
        /\ lastString' = StringCall(chain[1], outcome, r)
        /\ IF r.fatal
           THEN /\ ExitWith(1, "forward-fatal")
                /\ flog' = [flog EXCEPT ![c] = @ \cup {"provisioning"}]
                /\ UNCHANGED fpc
           ELSE /\ fpc' = [fpc EXCEPT ![c] = next]
                /\ UNCHANGED <<pc, exited, exitCode, exitCause, flog>>
    /\ ForwardFrame
    /\ UNCHANGED <<fconfig, fclient, localConn, remoteConn, copyTo, fdials, fclientId,
                   remoteVia, copyVars>>

\* line 283: the argument bastionEndpoint.String() of ssh.Dial
ForwardResolve(c) ==
    /\ Running /\ fpc[c] = "f_addr"
    /\ ForwardString(c, "f_dial")

\* a forwarder that keeps one SSH client for all its connections
newClient_Shared(c, ids) ==
    IF \E d \in Conns : ids[d] # 0
    THEN CHOOSE i \in {ids[d] : d \in Conns} \ {0} : TRUE
    ELSE c
\* line 283: every call of ssh.Dial makes a client of its own; the client is
\* named by the connection whose forward made the call (ids: the clients the
\* connections hold)
newClient(c, ids) == c

\* line 283: ssh.Dial reads config.Timeout first (a nil config panics), then
\* dials the bastion over TCP
ForwardDial(c) ==
    /\ Running /\ fpc[c] = "f_dial"
    /\ IF fconfig[c] = NilConfig
       THEN /\ ExitWith(2, "forward-panic")
            /\ UNCHANGED <<fpc, flog, fdials>>
       ELSE /\ fdials' = [fdials EXCEPT ![c] = @ + 1]
            /\ \E ok \in BOOLEAN :
                IF ok
                THEN /\ fpc' = [fpc EXCEPT ![c] = "f_hs"]
                     /\ UNCHANGED flog
                ELSE /\ fpc' = [fpc EXCEPT ![c] = "f_ret"]
                     /\ flog' = [flog EXCEPT ![c] = @ \cup {"dial"}]
            /\ UNCHANGED <<pc, exited, exitCode, exitCause>>
    /\ ForwardFrame
    /\ UNCHANGED <<provVars, fconfig, fclient, localConn, remoteConn, copyTo,
                   fclientId, remoteVia, copyVars>>

\* a forward that logs the error of ssh.Dial and goes on
handshakeNext_NoReturn(ok) == "f_dbg"
\* lines 284-287: forward returns when ssh.Dial failed
handshakeNext(ok) == IF ok THEN "f_dbg" ELSE "f_ret"

\* lines 283-287: the handshake inside ssh.Dial
ForwardHandshake(c) ==
    /\ Running /\ fpc[c] = "f_hs"
    /\ \E ok \in BOOLEAN :
        IF ok
        THEN /\ fclient' = [fclient EXCEPT ![c] = "open"]
             /\ fclientId' = [fclientId EXCEPT ![c] = newClient(c, fclientId)]
             /\ fpc' = [fpc EXCEPT ![c] = handshakeNext(TRUE)]
             /\ UNCHANGED flog
        ELSE /\ fpc' = [fpc EXCEPT ![c] = handshakeNext(FALSE)]
             /\ flog' = [flog EXCEPT ![c] = @ \cup {"handshake"}]
             /\ UNCHANGED <<fclient, fclientId>>
    /\ ForwardFrame
    /\ UNCHANGED <<pc, exited, exitCode, exitCause, provVars, fconfig, localConn,
                   remoteConn, copyTo, fdials, remoteVia, copyVars>>

\* line 288: the message of slog.Debug is formatted whatever the level, and
\* so resolves the bastion once more
ForwardDebugConnected(c) ==
    /\ Running /\ fpc[c] = "f_dbg"
    /\ ForwardString(c, "f_rdial")

\* lines 290-304: the channel to the remote target is opened on serverConn;
\* when it is open the two copyConn goroutines are started and forward
\* returns
ForwardRemoteDial(c) ==
    /\ Running /\ fpc[c] = "f_rdial"
    /\ \E ok \in BOOLEAN :
        IF ok
        THEN /\ remoteConn' = [remoteConn EXCEPT ![c] = "open"]
             /\ remoteVia' = [remoteVia EXCEPT ![c] = fclientId[c]]
             /\ copyTo' = [copyTo EXCEPT ![c] = [local |-> "copying",
                                                 remote |-> "copying"]]
             /\ UNCHANGED flog
        ELSE /\ flog' = [flog EXCEPT ![c] = @ \cup {"remote-dial"}]
             /\ UNCHANGED <<remoteConn, remoteVia, copyTo>>
    /\ fpc' = [fpc EXCEPT ![c] = "f_ret"]
    /\ ForwardFrame
    /\ UNCHANGED <<pc, exited, exitCode, exitCause, provVars, fconfig, fclient,
                   localConn, fdials, fclientId, copyVars>>

\* a Write that puts the chunk in front of what was written before
connWrite_Prepend(out, chunk) == chunk \o out
\* net.Conn.Write: the chunk follows what was written before
connWrite(out, chunk) == out \o chunk

\* lines 297-302, copyConn(writer, reader): one turn of the loop of io.Copy.
\* A Read of the reader gives the next n bytes of its source and a Write
\* passes them to the writer; a Write that fails has written only a part of
\* them; a Read at the end of the source gives EOF, a Read that fails an
\* error.  io.Copy returns at EOF (nil) and at the first error; copyConn
\* writes the error to the log and returns (the log lines of copyConn name
\* no connection and are not kept in flog).
CopyConn(c, w) ==
    /\ Running /\ copyTo[c][w] = "copying"
    /\ \/ \E n \in 1..(MaxBytes - nbytes) :
            LET chunk == [k \in 1..n |-> stream[c][w].read + k] IN
            /\ nbytes' = nbytes + n
            /\ \/ /\ stream' = [stream EXCEPT ![c][w] =
                                    [read |-> @.read + n,
                                     out |-> connWrite(@.out, chunk)]]
                  /\ UNCHANGED copyTo
               \/ \E k \in 0..(n - 1) :
                    /\ stream' = [stream EXCEPT ![c][w] =
                                    [read |-> @.read + n,
                                     out |-> connWrite(@.out, SubSeq(chunk, 1, k))]]
                    /\ copyTo' = [copyTo EXCEPT ![c][w] = "done"]
       \/ /\ copyTo' = [copyTo EXCEPT ![c][w] = "done"]
          /\ UNCHANGED <<stream, nbytes>>
    /\ ForwardFrame
    /\ UNCHANGED <<pc, exited, exitCode, exitCause, provVars, fpc, fconfig, fclient,
                   localConn, remoteConn, flog, fdials, fclientId, remoteVia>>

(***************************************************************************)
(* main (src/main.go:27-95).                                               *)
(***************************************************************************)
\* lines 78-86: the exit status for the error run returned
mainExitCode(err) ==
    IF err.kind = "nil" THEN 0
    ELSE IF err.kind = "exit" THEN err.status
    ELSE 1

MainExit ==
    /\ Running /\ pc = "main_ret"
    /\ ExitWith(mainExitCode(runErr), "main")
    /\ UNCHANGED <<farewell, tunnelVars, resolveVars, runVars, connectVars, provVars, termVars,
                   failure>>

\* a signal goroutine that lets the session and the forward tasks finish
\* before it ends the process
SignalHandler_Drains ==
    /\ Running
    /\ sess # "open"
    /\ \A c \in Conns : fpc[c] \in {"idle", "f_ret"}
    /\ farewell' = TRUE
    /\ ExitWith(0, "signal")
    /\ UNCHANGED <<tunnelVars, resolveVars, runVars, connectVars, provVars, termVars, failure>>

\* setupSignalHandlers, lines 87-95: the signal goroutine
SignalHandler ==
    /\ Running
    /\ farewell' = TRUE
    /\ ExitWith(0, "signal")
    /\ UNCHANGED <<tunnelVars, resolveVars, runVars, connectVars, provVars, termVars, failure>>

Next ==
    \/ RunStart
    \/ RunResolve
    \/ RunAfterResolve
    \/ RunBastionEndpoint
    \/ RunTunnelCheck
    \/ RunDestEndpoint
    \/ ConnectGetSSHConfig
    \/ ConnectResolve
    \/ ConnectDial
    \/ ConnectHandshake
    \/ ConnectNewSession
    \/ ConnectMakeRaw
    \/ ConnectGetSize
    \/ ConnectRequestPty
    \/ ConnectShell
    \/ ConnectWait
    \/ TunnelListen
    \/ TunnelAccept
    \/ \E c \in Conns : ForwardGetSSHConfig(c)
    \/ \E c \in Conns : ForwardResolve(c)
    \/ \E c \in Conns : ForwardDial(c)
    \/ \E c \in Conns : ForwardHandshake(c)
    \/ \E c \in Conns : ForwardDebugConnected(c)
    \/ \E c \in Conns : ForwardRemoteDial(c)
    \/ MainExit
    \/ SignalHandler

\* the whole run, up to the start of the copyConn goroutines
Spec == Init /\ [][Next]_vars

(***************************************************************************)
(* The tunnel forwarder with its copyConn goroutines, from the call of     *)
(* Tunnel by run (src/main.go:137).                                        *)
(***************************************************************************)
\* run has constructed the bastion endpoint for --instance-id i-aaa and calls
\* Tunnel with the local port
ForwardInit ==
    /\ pc = "t_listen"
    /\ exited = FALSE
    /\ exitCode = 0
    /\ exitCause = "none"
    /\ farewell = FALSE
    /\ siro = NoResponse
    /\ dio = NoResponse
    /\ resolved = NoResolution
    /\ instanceID \in FlagIds
    /\ tunnelFlag = "host"
    /\ destArgs = <<>>
    /\ tunnel = [Host |-> "db", Port |-> 5432]
    /\ localPortFlag = 0
    /\ localPort = tunnelLocalPort(localPortFlag, tunnel)
    /\ runErr = NoErr
    /\ returned = FALSE
    /\ \E user \in UserFlags, port \in PortFlags :
            chain = <<NewEC2Endpoint(bastionAddr(user, instanceID, port), 1, "ok").ep>>
    /\ constructed = 1
    /\ hop = 0
    /\ client = 0
    /\ sshConfig = NilConfig
    /\ serviceAddr = NoAddr
    /\ dialLog = <<>>
    /\ sessLog = <<>>
    /\ provLog = <<>>
    /\ stringCalls = 0
    /\ lastString = NoCall
    /\ sess = "none"
    /\ termRaw = FALSE
    /\ rawEntered = FALSE
    /\ failure = NoFailure
    /\ listener = "none"
    /\ nconns = 0
    /\ fpc = [c \in Conns |-> "idle"]
    /\ fconfig = [c \in Conns |-> NilConfig]
    /\ fclient = [c \in Conns |-> "none"]
    /\ localConn = [c \in Conns |-> "none"]
    /\ remoteConn = [c \in Conns |-> "none"]
    /\ copyTo = [c \in Conns |-> [local |-> "none", remote |-> "none"]]
    /\ flog = [c \in Conns |-> {}]
    /\ fdials = [c \in Conns |-> 0]
    /\ fclientId = [c \in Conns |-> 0]
    /\ remoteVia = [c \in Conns |-> 0]
    /\ stream = [c \in Conns |-> [w \in Sides |-> NoStream]]
    /\ nbytes = 0

ForwardNext ==
    \/ TunnelListen
    \/ TunnelAccept
    \/ \E c \in Conns : ForwardGetSSHConfig(c)
    \/ \E c \in Conns : ForwardResolve(c)
    \/ \E c \in Conns : ForwardDial(c)
    \/ \E c \in Conns : ForwardHandshake(c)
    \/ \E c \in Conns : ForwardDebugConnected(c)
    \/ \E c \in Conns : ForwardRemoteDial(c)
    \/ \E c \in Conns, w \in Sides : CopyConn(c, w)
    \/ MainExit
    \/ SignalHandler

ForwardSpec == ForwardInit /\ [][ForwardNext]_vars

(***************************************************************************)
(* The construction of one destination endpoint from its argument          *)
(* (src/main.go:144-151, src/pkg/sshutils/ec2endpoint.go:32-63).           *)
(***************************************************************************)
\* endpoint strings of the form [user@]id[:port], by their parts (user <<>>
\* and port 0: the part is absent)
EndpointForms ==
    [user : {<<>>, <<"ec2-user">>, <<"admin">>, <<"root">>},
     id : {<<"i-0123">>, <<"i-aaa">>, <<"i-eee">>},
     port : {0, 22, 2222}]
FormatEndpoint(f) ==
    (IF f.user = <<>> THEN <<>> ELSE f.user \o <<"@">>)
    \o f.id
    \o (IF f.port = 0 THEN <<>> ELSE <<":", Itoa(f.port)>>)

\* run has constructed the bastion endpoint and is about to construct the
\* endpoint of its one destination argument
ParseInit ==
    /\ pc = "dest_ep"
    /\ exited = FALSE
    /\ exitCode = 0
    /\ exitCause = "none"
    /\ farewell = FALSE
    /\ siro = NoResponse
    /\ dio = NoResponse
    /\ resolved = NoResolution
    /\ instanceID \in FlagIds
    /\ tunnelFlag = "none"
    /\ \E f \in EndpointForms : destArgs = <<FormatEndpoint(f)>>
    /\ localPort = 0
    /\ tunnel = NoTunnel
    /\ localPortFlag = 0
    /\ runErr = NoErr
    /\ returned = FALSE
    /\ \E user \in UserFlags, port \in PortFlags :
            chain = <<NewEC2Endpoint(bastionAddr(user, instanceID, port), 1, "ok").ep>>
    /\ constructed = 1
    /\ hop = 1
    /\ client = 0
    /\ sshConfig = NilConfig
    /\ serviceAddr = NoAddr
    /\ dialLog = <<>>
    /\ sessLog = <<>>
    /\ provLog = <<>>
    /\ stringCalls = 0
    /\ lastString = NoCall
    /\ sess = "none"
    /\ termRaw = FALSE
    /\ rawEntered = FALSE
    /\ failure = NoFailure
    /\ listener = "none"
    /\ nconns = 0
    /\ fpc = [c \in Conns |-> "idle"]
    /\ fconfig = [c \in Conns |-> NilConfig]
    /\ fclient = [c \in Conns |-> "none"]
    /\ localConn = [c \in Conns |-> "none"]
    /\ remoteConn = [c \in Conns |-> "none"]
    /\ copyTo = [c \in Conns |-> [local |-> "none", remote |-> "none"]]
    /\ flog = [c \in Conns |-> {}]
    /\ fdials = [c \in Conns |-> 0]
    /\ fclientId = [c \in Conns |-> 0]
    /\ remoteVia = [c \in Conns |-> 0]
    /\ stream = [c \in Conns |-> [w \in Sides |-> NoStream]]
    /\ nbytes = 0

ParseNext == RunDestEndpoint

ParseSpec == ParseInit /\ [][ParseNext]_vars

(***************************************************************************)
(* Properties.                                                             *)
(***************************************************************************)
\* the resolver's query results are in scope (it has run and run has not
\* yet taken its result)
Resolving == siro # NoResponse /\ dio # NoResponse

SpotResult == {siro.SpotInstanceRequests[i] : i \in 1..Len(siro.SpotInstanceRequests)}
RunningResult ==
    UNION {{dio.Reservations[i][j] : j \in 1..Len(dio.Reservations[i])} :
            i \in 1..Len(dio.Reservations)}

\* C1: when the spot-request query returns at least one request, the id
\* returned is the instance id of one of those requests, and never an id that
\* is only in the running-instance result, however many running instances
\* there are.
C1_SpotPreferred ==
    (Resolving /\ ~siro.err /\ Len(siro.SpotInstanceRequests) > 0)
        => /\ ~resolved.panic
           /\ resolved.err = NoErr
           /\ resolved.id \in SpotResult
           /\ resolved.id \notin (RunningResult \ SpotResult)

C1_Witness ==
    /\ Resolving /\ pc = "resolve_ret"
    /\ ~siro.err /\ Len(siro.SpotInstanceRequests) = MaxSpot
    /\ ~dio.err /\ Len(dio.Reservations) = MaxRes
    /\ <<"i-ccc">> \in RunningResult
    /\ resolved.id \in SpotResult

\* C2: when the spot-request query returns no request and the
\* running-instance query returns at least one reservation group, the call
\* completes without failure and returns the id of an instance of one of the
\* returned groups.
C2_RunningFallback ==
    (Resolving /\ ~siro.err /\ Len(siro.SpotInstanceRequests) = 0
               /\ ~dio.err /\ Len(dio.Reservations) > 0)
        => /\ ~resolved.panic
           /\ resolved.err = NoErr
           /\ resolved.id \in RunningResult

\* C3: when both queries return empty result sets the call fails with the
\* not-found error and an empty id; run returns that error and constructs
\* no endpoint.
C3_NotFound ==
    /\ (Resolving /\ ~siro.err /\ Len(siro.SpotInstanceRequests) = 0
                  /\ ~dio.err /\ Len(dio.Reservations) = 0)
        => (resolved.err.kind = "notfound" /\ resolved.id = NoId /\ ~resolved.panic)
    /\ resolved.err.kind = "notfound"
        => /\ constructed = 0
           /\ chain = <<>>
           /\ instanceID = NoId
           /\ pc \in {"resolve_ret", "main_ret", "exited"}
           /\ pc = "main_ret" => (returned /\ runErr = resolved.err)
           /\ (exited /\ exitCause = "main") => (returned /\ runErr = resolved.err)

C3_Witness ==
    /\ resolved.err.kind = "notfound"
    /\ returned /\ runErr.kind = "notfound"
    /\ exited /\ exitCause = "main" /\ exitCode = 1

FatalExit == exited /\ exitCause \in {"fatal", "forward-fatal"}

\* C4 (as stated): a throttling answer does not abort resolution; any other
\* provisioning failure hands a provisioning error back to the caller of the
\* resolution, which goes on running, and gives no address.
C4_ErrorReturnedToCaller ==
    /\ lastString.outcome = "throttling"
        => (lastString.addr # NoAddr /\ ~FatalExit)
    /\ lastString.outcome \in {"error", "nosuccess"}
        => (lastString.addr = NoAddr /\ ~FatalExit)

\* C4 (amended): a throttling answer does not abort resolution and the
\* address is returned; any other provisioning failure ends the process with
\* status 1 inside the resolution (log.Fatal): no address is produced and
\* nothing is returned to the caller.
C4_FailureIsFatal ==
    /\ lastString.outcome \in {"ok", "throttling"}
        => /\ ~lastString.fatal
           /\ lastString.addr # NoAddr
           /\ \E i \in 1..Len(chain) :
                 /\ chain[i].PublicKey = lastString.key
                 /\ lastString.addr = EndpointAddr(chain[i])
           /\ provLog[Len(provLog)].kind = "addr"
           /\ provLog[Len(provLog)].addr = lastString.addr
           /\ ~FatalExit
    /\ lastString.outcome \in {"error", "nosuccess"}
        => /\ lastString.addr = NoAddr
           /\ provLog[Len(provLog)].kind = "send"
           /\ exited /\ exitCode = 1
           /\ exitCause \in {"fatal", "forward-fatal"}
           /\ exitCause = "fatal"
                => (~returned /\ failure.kind = "provisioning")
           /\ exitCause = "forward-fatal"
                => \E c \in Conns : /\ "provisioning" \in flog[c]
                                    /\ fpc[c] \in {"f_addr", "f_dbg"}

C4_Witness ==
    /\ lastString.outcome = "throttling"
    /\ pc = "c_hs" /\ hop = 2
    /\ serviceAddr = lastString.addr
    /\ serviceAddr = EndpointAddr(chain[2])

Sends == {k \in 1..Len(provLog) : provLog[k].kind = "send"}
Addrs == {k \in 1..Len(provLog) : provLog[k].kind = "addr"}

\* C5: every address an endpoint returns is immediately preceded by a
\* send-public-key call of its own for that endpoint, none comes from an
\* earlier resolution, and there are as many provisioning calls as
\* resolutions.
C5_ProvisionedEveryResolution ==
    /\ \A k \in Addrs :
          /\ k > 1
          /\ provLog[k - 1].kind = "send"
          /\ provLog[k - 1].key = provLog[k].key
          /\ provLog[k - 1].ep = provLog[k].ep
    /\ Cardinality(Sends) = stringCalls
    /\ Cardinality(Addrs) <= Cardinality(Sends)

C5_Witness ==
    /\ tunnelFlag = "host"
    /\ \E c1, c2 \in Conns : c1 # c2 /\ fpc[c1] = "f_ret" /\ fpc[c2] = "f_rdial"
    /\ Cardinality({k \in Addrs : provLog[k].key = chain[1].PublicKey}) >= 4
    /\ stringCalls >= 4

\* C6: when a step of hop i of Connect fails (auth config, transport or
\* channel, handshake), Connect returns a non-nil error that carries hop i's
\* resolved address, no later hop is resolved or dialed and no session is
\* opened.
C6_HopFailureError ==
    (returned /\ failure.kind \in {"authconfig", "dial", "handshake"})
        => /\ runErr # NoErr
           /\ runErr.addr = EndpointAddr(chain[failure.hop])
           /\ \A k \in 1..Len(dialLog) : dialLog[k].hop <= failure.hop
           /\ \A k \in 1..Len(provLog) :
                 \E i \in 1..failure.hop : provLog[k].key = chain[i].PublicKey
           /\ sess = "none"

ChainBuilt == Len(chain) > 0 /\ client = Len(chain)

ExpectedDial(k) ==
    LET i == (k + 1) \div 2 IN
    [op |-> IF k % 2 = 0 THEN "handshake" ELSE IF i = 1 THEN "tcp" ELSE "chan",
     hop |-> i,
     via |-> i - 1,
     addr |-> EndpointAddr(chain[i]),
     config |-> [User |-> chain[i].User, Key |-> chain[i].PrivateKey],
     ok |-> k < Len(dialLog) \/ ChainBuilt]

\* C7: in a Connect whose hops all succeed the hops are taken in list order:
\* one direct dial (to the first endpoint), N-1 channel opens, each through
\* the client of the hop before and after that hop's handshake succeeded,
\* and every handshake with the auth config and the address of its own
\* endpoint.
C7_ChainOrder ==
    /\ \A k \in 1..Len(dialLog) :
          /\ (k + 1) \div 2 <= Len(chain)
          /\ k < Len(dialLog) => dialLog[k] = ExpectedDial(k)
          /\ [dialLog[k] EXCEPT !.ok = TRUE] = [ExpectedDial(k) EXCEPT !.ok = TRUE]
    /\ ChainBuilt
        => /\ Len(dialLog) = 2 * Len(chain)
           /\ \A k \in 1..Len(dialLog) : dialLog[k] = ExpectedDial(k)
           /\ Cardinality({k \in 1..Len(dialLog) : dialLog[k].op = "tcp"}) = 1
           /\ Cardinality({k \in 1..Len(dialLog) : dialLog[k].op = "chan"})
                = Len(chain) - 1

C7_Witness ==
    /\ ChainBuilt
    /\ Len(chain) = MaxDests + 1
    /\ sess = "open"

\* C8: once Connect has put standard input in raw mode, the terminal state
\* is restored on every path by which the process leaves the session.
C8_RawModeRestored ==
    (rawEntered /\ (exited \/ returned)) => ~termRaw

Interactive == tunnelFlag # "host"

\* C9: an interactive run exits with 0 when the chain is built and the shell
\* ends cleanly, with the remote status when the shell ends with a non-zero
\* status, and with a non-zero status whenever resolution, provisioning,
\* auth config, dial, handshake or session setup fails.
C9_ExitStatus ==
    (exited /\ exitCause # "signal" /\ Interactive)
        => /\ (failure = NoFailure /\ exitCause = "main") => exitCode = 0
           /\ failure.kind = "remote-exit"
                => (exitCode = runErr.status /\ exitCode # 0)
           /\ failure.kind \in {"resolution", "provisioning", "authconfig", "dial",
                                "handshake", "session", "rawmode", "termsize",
                                "pty", "shell"}
                => exitCode # 0

\* C10: a failure inside the task of one accepted connection never ends the
\* process, never closes the listener, never stops the accept loop and never
\* disturbs another connection.
C10_ForwardFailureIsolated ==
    (\E c \in Conns : flog[c] # {})
        => /\ ~(exited /\ exitCause \in {"forward-fatal", "forward-panic"})
           /\ listener = "closed" => failure.kind = "accept"
           /\ pc # "t_accept"
                => (failure.kind = "accept" \/ (exited /\ exitCause = "signal"))

(***************************************************************************)
(* Properties of the tunnel forwarder.                                     *)
(***************************************************************************)
\* the setup errors forward logs before it returns early
SetupErrors == {"dial", "handshake", "remote-dial"}

\* C11: when the setup of an accepted connection fails (dial or handshake
\* with the bastion, channel-open to the remote target), its local socket
\* and the SSH client already opened for it are closed before its task ends.
C11_SetupFailureCloses ==
    \A c \in Conns :
        (fpc[c] = "f_ret" /\ flog[c] \cap SetupErrors # {})
            => (localConn[c] = "closed" /\ fclient[c] # "open")

\* the connections Tunnel has accepted so far
Accepted == 1..nconns

\* forward of connection c is past its call of ssh.Dial
Dialed(c) == fpc[c] \in {"f_hs", "f_dbg", "f_rdial", "f_ret"}

\* C12: K accepted connections make K dial/handshakes with the bastion, one
\* each; no SSH client and no channel serves two connections; the end of one
\* forwarded connection closes neither the listener nor another connection.
C12_IndependentHandshakes ==
    /\ \A c \in Conns :
        /\ fdials[c] <= 1
        /\ Dialed(c) => (c \in Accepted /\ fdials[c] = 1)
        /\ c \notin Accepted => (fdials[c] = 0 /\ fclientId[c] = 0)
        /\ remoteConn[c] = "open" => (remoteVia[c] # 0 /\ remoteVia[c] = fclientId[c])
    /\ \A c, d \in Conns :
        (c # d /\ fclient[c] = "open" /\ fclient[d] = "open")
            => (fclientId[c] # fclientId[d] /\ remoteVia[c] # fclientId[d])
    /\ \A c \in Conns :
        (\E w \in Sides : copyTo[c][w] = "done")
            => /\ listener = "closed" => failure.kind = "accept"
               /\ \A d \in Accepted \ {c} :
                    /\ localConn[d] = "open"
                    /\ copyTo[d]["local"] # "none"
                        => (remoteConn[d] = "open" /\ fclient[d] = "open")

C12_Witness ==
    /\ nconns = 2
    /\ fdials[1] = 1 /\ fdials[2] = 1
    /\ fclient[1] = "open" /\ fclient[2] = "open"
    /\ copyTo[1]["local"] = "done"
    /\ copyTo[2]["local"] = "copying" /\ copyTo[2]["remote"] = "copying"
    /\ listener = "open"

(***************************************************************************)
(* Properties of the endpoints.                                            *)
(***************************************************************************)
\* the endpoint of the chain that holds public key k
Holder(k) == CHOOSE i \in 1..Len(chain) : chain[i].PublicKey = k

\* C13: String gives the private address of the instance, joined with the
\* endpoint's port, when UsePrivate is set, and the public address, joined
\* with the same port, when it is not.
C13_AddressByFlag ==
    \A k \in 1..Len(provLog) :
        provLog[k].kind = "addr"
            => /\ \E i \in 1..Len(chain) : chain[i].PublicKey = provLog[k].key
               /\ LET e == chain[Holder(provLog[k].key)] IN
                  provLog[k].addr =
                    (IF e.UsePrivate
                     THEN <<"private-ip-of">> \o e.InstanceID
                     ELSE <<"public-ip-of">> \o e.InstanceID)
                    \o <<":", Itoa(e.Port)>>

C13_Witness ==
    /\ \E k \in 1..Len(provLog) :
        /\ provLog[k].kind = "addr"
        /\ provLog[k].addr = <<"private-ip-of", "i-eee", ":", "2222">>
    /\ \E k \in 1..Len(provLog) :
        /\ provLog[k].kind = "addr"
        /\ provLog[k].addr[1] = "public-ip-of"
        /\ provLog[k].addr[Len(provLog[k].addr)] = "22"

\* the instance id a destination argument names
ArgId(a) == IF Len(a) = 1 THEN a ELSE <<a[3]>>

\* the addresses String has returned for the endpoint that holds key k
AddrsOf(k) ==
    {provLog[j].addr : j \in {n \in 1..Len(provLog) :
                                provLog[n].kind = "addr" /\ provLog[n].key = k}}

\* C14: the chain run builds starts with the bastion endpoint, resolved to
\* its public address, followed by one endpoint per destination argument, in
\* the order given, each resolved to its private address; the address of the
\* first hop is never the address of a destination hop.
C14_ChainShape ==
    tunnelFlag = "none"
        => /\ Len(chain) <= 1 + Len(destArgs)
           /\ (stringCalls > 0 \/ sshConfig # NilConfig)
                => Len(chain) = 1 + Len(destArgs)
           /\ Len(chain) >= 1
           /\ chain[1].InstanceID = instanceID
           /\ ~chain[1].UsePrivate
           /\ \A a \in AddrsOf(chain[1].PublicKey) :
                a[1] = "public-ip-of" /\ SubSeq(a, 2, Len(a) - 2) = instanceID
           /\ \A i \in 2..Len(chain) :
                /\ chain[i].InstanceID = ArgId(destArgs[i - 1])
                /\ chain[i].UsePrivate
                /\ \A a \in AddrsOf(chain[i].PublicKey) :
                    /\ a[1] = "private-ip-of"
                    /\ SubSeq(a, 2, Len(a) - 2) = ArgId(destArgs[i - 1])
                    /\ a \notin AddrsOf(chain[1].PublicKey)

C14_Witness ==
    /\ tunnelFlag = "none"
    /\ instanceID = <<"i-aaa">>
    /\ destArgs = << <<"i-aaa">>, <<"admin", "@", "i-eee", ":", "2222">> >>
    /\ Len(chain) = 3
    /\ AddrsOf(chain[1].PublicKey) # {}
    /\ AddrsOf(chain[2].PublicKey) # {}
    /\ AddrsOf(chain[3].PublicKey) # {}

C16_ParsedFields ==
    Len(chain) = 2
        => /\ \A f \in EndpointForms :
                destArgs[1] = FormatEndpoint(f)
                    => /\ chain[2].User =
                            (IF f.user = <<>> THEN <<"ec2-user">> ELSE f.user)
                       /\ chain[2].InstanceID = f.id
                       /\ chain[2].Port = (IF f.port = 0 THEN 22 ELSE f.port)
           /\ destArgs[1] = <<"ec2-user", "@", "i-0123", ":", "2222">>
                => /\ chain[2].User = <<"ec2-user">>
                   /\ chain[2].InstanceID = <<"i-0123">>
                   /\ chain[2].Port = 2222
           /\ destArgs[1] = <<"i-0123">>
                => /\ chain[2].User = <<"ec2-user">>
                   /\ chain[2].InstanceID = <<"i-0123">>
                   /\ chain[2].Port = 22

C16_Witness ==
    /\ Len(chain) = 2
    /\ destArgs[1] = <<"admin", "@", "i-0123", ":", "2222">>
    /\ chain[2].User = <<"admin">>
    /\ chain[2].Port = 2222

(***************************************************************************)
(* Properties of the signal goroutine.                                     *)
(***************************************************************************)
\* the state of the main goroutine, of the session and of the forward tasks
taskVars == <<resolveVars, runVars, connectVars, provVars, termVars, failure,
              tunnelVars>>

\* C17: in every state of a run a signal makes the signal goroutine print
\* the farewell and end the process with status 0 at once: it waits for no
\* task in flight and lets none of them take a further step.
C17_SignalExitsAtOnce ==
    /\ [](/\ Running => ENABLED SignalHandler
          /\ exitCause = "signal" => (exited /\ exitCode = 0 /\ farewell)
          /\ farewell => exitCause = "signal")
    /\ [][(exitCause' = "signal" /\ exitCause # "signal")
            => (~exited /\ UNCHANGED taskVars)]_vars

C17_Witness ==
    /\ exited /\ exitCause = "signal" /\ exitCode = 0 /\ farewell
    /\ nconns = 2
    /\ fpc[1] = "f_hs" /\ fpc[2] = "f_dial"

\* priv and pub are the two halves of one generated pair
KeyPair(priv, pub) ==
    /\ Len(priv) = 2 /\ Len(pub) = 2
    /\ priv[1] = "private-key" /\ pub[1] = "public-key"
    /\ priv[2] = pub[2]

\* C18: an endpoint keeps the key pair generated at its construction: every
\* public key pushed for it and every auth config made for it use the two
\* halves of its own pair, and no two endpoints of a chain have the same pair.
C18_OwnKeyPair ==
    /\ \A i \in 1..Len(chain) :
        /\ KeyPair(chain[i].PrivateKey, chain[i].PublicKey)
        /\ \A j \in 1..Len(chain) :
            i # j => /\ chain[i].PublicKey # chain[j].PublicKey
                     /\ chain[i].PrivateKey # chain[j].PrivateKey
    /\ \A k \in 1..Len(provLog) :
        provLog[k].kind = "send"
            => \E i \in 1..Len(chain) :
                /\ provLog[k].key = chain[i].PublicKey
                /\ provLog[k].ep = chain[i].InstanceID
                /\ provLog[k].user = chain[i].User
    /\ pc \in {"c_addr", "c_dial", "c_hs"}
        => /\ sshConfig.Key = chain[hop].PrivateKey
           /\ sshConfig.User = chain[hop].User
    /\ pc \in {"c_dial", "c_hs"}
        => /\ lastString.key = chain[hop].PublicKey
           /\ KeyPair(sshConfig.Key, lastString.key)
    /\ \A c \in Conns :
        fconfig[c] # NilConfig
            => /\ fconfig[c].Key = chain[1].PrivateKey
               /\ fpc[c] \in {"f_dial", "f_hs"}
                    => KeyPair(fconfig[c].Key, lastString.key)

C18_Witness ==
    /\ Len(chain) = 3 /\ hop = 3 /\ pc = "c_hs"
    /\ chain[1].InstanceID = chain[2].InstanceID
    /\ \A i \in 1..3 : \E k \in 1..Len(provLog) :
            provLog[k].kind = "send" /\ provLog[k].key = chain[i].PublicKey

(***************************************************************************)
(* Properties of the accept loop.                                          *)
(***************************************************************************)
\* C19: the accept loop goes on until Accept itself fails; Tunnel then
\* returns that error and the listener is closed.  After each accepted
\* connection the loop is back at Accept, wherever the forward tasks of the
\* connections accepted before are, so a connection that is stuck in its
\* setup never keeps a later one from being accepted.
C19_AcceptLoop ==
    /\ (listener = "open" /\ Running /\ ~returned) => pc = "t_accept"
    /\ (listener = "open" /\ Running /\ ~returned /\ nconns < MaxConns)
        => ENABLED (TunnelAccept /\ nconns' = nconns + 1)
    /\ listener = "closed" <=> failure.kind = "accept"
    /\ failure.kind = "accept"
        => (returned /\ runErr = Err("accept", NoAddr, 0))
    /\ (listener = "open" /\ returned) => FALSE

C19_Witness ==
    /\ Running /\ pc = "t_accept" /\ listener = "open"
    /\ nconns = 2
    /\ fpc[1] = "f_cfg"
    /\ fpc[2] = "f_hs"

\* C20: once one side of a forwarded connection has closed or failed, both
\* copy tasks end and the connection's local socket, channel and SSH client
\* are released: at the latest when both tasks have ended, all three are
\* closed.
C20_CopyEndReleases ==
    \A c \in Conns :
        (copyTo[c]["local"] = "done" /\ copyTo[c]["remote"] = "done")
            => /\ localConn[c] = "closed"
               /\ remoteConn[c] = "closed"
               /\ fclient[c] = "closed"

(***************************************************************************)
(* Properties of the order of steps.                                       *)
(***************************************************************************)
\* forward of connection c has tried to open the channel to the remote target
ChannelTried(c) == remoteConn[c] # "none" \/ "remote-dial" \in flog[c]

\* C21: a forward task resolves the bastion, then dials and shakes hands
\* with it, then opens the channel to the remote target, then starts the
\* copy; the two copy tasks, one per direction, start only after handshake
\* and channel-open both succeeded, and no channel-open follows a failed
\* handshake.
C21_ForwardOrder ==
    /\ \A c \in Conns :
        /\ fclient[c] # "none" => fdials[c] = 1
        /\ ChannelTried(c) => fclient[c] = "open"
        /\ fpc[c] = "f_rdial" => fclient[c] = "open"
        /\ (copyTo[c]["local"] # "none" \/ copyTo[c]["remote"] # "none")
            => /\ copyTo[c]["local"] # "none" /\ copyTo[c]["remote"] # "none"
               /\ fclient[c] = "open" /\ remoteConn[c] = "open"
               /\ remoteVia[c] = fclientId[c]
               /\ flog[c] \cap SetupErrors = {}
        /\ flog[c] \cap {"dial", "handshake"} # {}
            => (~ChannelTried(c) /\ fpc[c] = "f_ret" /\ fclient[c] = "none")
    \* every dial follows a resolution of its own, and every channel-open a
    \* second one (the addresses String returned so far are as many as that)
    /\ Cardinality({c \in Conns : fdials[c] = 1})
         + Cardinality({c \in Conns : fpc[c] = "f_rdial" \/ ChannelTried(c)})
       <= Cardinality({k \in 1..Len(provLog) : provLog[k].kind = "addr"})

C21_Witness ==
    /\ copyTo[1]["local"] = "copying" /\ copyTo[1]["remote"] = "copying"
    /\ fclient[1] = "open" /\ remoteConn[1] = "open"
    /\ "handshake" \in flog[2] /\ fpc[2] = "f_ret"


\* ---------------------------------------------------------------------
\* C22
\* the calls of Connect for the session, in the order of part_002:338-380,
\* with a terminal on standard input and without one
TermOrder == <<"session", "isterminal", "raw", "size", "pty", "shell", "wait">>

NoTermOrder == <<"session", "notterminal", "shell", "wait">>

SessSteps == [i \in 1..Len(sessLog) |-> sessLog[i].step]

IsPrefix(s, t) == Len(s) <= Len(t) /\ SubSeq(t, 1, Len(s)) = s

HandshakesDone == {i \in 1..Len(dialLog) : dialLog[i].op = "handshake" /\ dialLog[i].ok}

\* C22: the session is created on the client of the last hop, and only once
\* every endpoint of the list has been dialed and has completed its
\* handshake; with a terminal on standard input the calls are raw mode,
\* terminal size, PTY request, shell request, wait, in this order, and
\* without one the shell request follows with no raw mode and no PTY
\* request; a Connect that has requested the shell, and a Connect in which
\* no step failed, returns only after sess.Wait has returned
C22_SessionOrder ==
    /\ sessLog # <<>> =>
         /\ \A i \in 1..Len(sessLog) : sessLog[i].on = Len(chain)
         /\ hop = Len(chain)
         /\ Cardinality(HandshakesDone) = Len(chain)
         /\ \A h \in 1..Len(chain) :
              \E i \in HandshakesDone : dialLog[i].hop = h
         /\ \A i \in 1..Len(dialLog) : dialLog[i].ok
    /\ IsPrefix(SessSteps, TermOrder) \/ IsPrefix(SessSteps, NoTermOrder)
    /\ rawEntered => IsPrefix(<<"session", "isterminal", "raw">>, SessSteps)
    /\ (returned /\ \E i \in 1..Len(sessLog) : sessLog[i].step = "shell") =>
         sessLog[Len(sessLog)].step = "wait"
    /\ (returned /\ failure = NoFailure /\ tunnelFlag = "none") =>
         /\ sessLog # <<>>
         /\ sessLog[Len(sessLog)].step = "wait"

\* a chain of two hops whose shell, asked for from a terminal, has ended
C22_Witness ==
    /\ returned
    /\ Len(chain) >= 2
    /\ SessSteps = TermOrder
    /\ sessLog[1].on = Len(chain)


\* ---------------------------------------------------------------------
\* C23: the resolver asks for the spot requests first, and asks for the
\* running instances only when the spot-request query has succeeded with an
\* empty result: with a non-empty spot result the spot query is the only
\* one, and with a failed spot query it is the only one too and the call
\* returns the error with an empty id
C23_QueryOrder ==
    Resolving =>
        /\ resolved.queries \in {<<"spot">>, <<"spot", "instances">>}
        /\ resolved.queries = <<"spot", "instances">> =>
             (~siro.err /\ Len(siro.SpotInstanceRequests) = 0)
        /\ Len(siro.SpotInstanceRequests) > 0 => resolved.queries = <<"spot">>
        /\ siro.err => /\ resolved.queries = <<"spot">>
                       /\ resolved.id = NoId
                       /\ resolved.err # NoErr
                       /\ ~resolved.panic

\* the spot-request query has failed while running instances carry the tag
C23_Witness ==
    /\ Resolving /\ pc = "resolve_ret"
    /\ siro.err
    /\ ~dio.err /\ Len(dio.Reservations) > 0 /\ RunningResult # {}
    /\ resolved.queries = <<"spot">>


\* ---------------------------------------------------------------------
\* C24
\* what shows that Tunnel, or Connect, has been called
TunnelCalled ==
    \/ pc \in {"t_listen", "t_accept", "t_forward"}
    \/ listener # "none" \/ nconns > 0 \/ localPort # 0
    \/ failure.kind \in {"listen", "accept"}

ConnectCalled ==
    \/ pc \in {"c_cfg", "c_addr", "c_dial", "c_hs", "c_session", "c_term",
               "c_size", "c_pty", "c_shell", "c_wait"}
    \/ sshConfig # NilConfig \/ dialLog # <<>> \/ sessLog # <<>> \/ sess # "none"
    \/ failure.kind = "authconfig"

\* C24: a run calls Tunnel or Connect, never both. With a tunnel target that
\* has a host, Tunnel is called with the bastion endpoint and the
\* --local-port flag, or the port of the tunnel target when the flag is not
\* given; no destination endpoint is constructed and Connect is not called.
\* With no such target, Connect is what run calls, and no listener is bound.
C24_TunnelOrConnect ==
    /\ ~(TunnelCalled /\ ConnectCalled)
    /\ tunnelFlag = "host" =>
         /\ tunnel.Host # ""
         /\ localPort = (IF localPortFlag = 0 THEN tunnel.Port ELSE localPortFlag)
         /\ localPort # 0
         /\ Len(chain) = 1 /\ constructed = 1 /\ ~chain[1].UsePrivate
         /\ destArgs = <<>> /\ hop = 0
         /\ ~ConnectCalled
    /\ tunnelFlag = "none" =>
         /\ ~TunnelCalled
         /\ tunnel = NoTunnel
         /\ \A c \in Conns : flog[c] = {} /\ fdials[c] = 0
    /\ tunnelFlag = "unread" => (~TunnelCalled /\ ~ConnectCalled)
    /\ (TunnelCalled \/ pc = "tunnel_check") => tunnelFlag # "none"
    /\ ConnectCalled =>
         /\ tunnelFlag = "none"
         /\ Len(chain) = 1 + Len(destArgs)

\* a tunnel run with no --local-port listens on the port of its target and
\* has accepted a connection
C24_Witness ==
    /\ tunnelFlag = "host"
    /\ tunnel = [Host |-> "cache", Port |-> 6379]
    /\ localPortFlag = 0 /\ localPort = 6379
    /\ listener = "open" /\ nconns >= 1
    /\ constructed = 1

====
